---- MODULE Spec2Model ----
(***************************************************************************)
(* A model of streamlit_app.py: the cached sea-surface-temperature fetch   *)
(* (load_sst under st.cache_data, and the report body that calls it) and   *)
(* the chart primitives bullet, lollipop_horizontal and waffle.            *)
(*                                                                         *)
(* Two specifications share the variables:                                 *)
(*   Spec        the script reruns: a date is picked, load_sst is called   *)
(*               through the cache, the map is drawn or skipped;           *)
(*   SpecCharts  one chart primitive draws on a fresh figure, st.pyplot    *)
(*               shows it and clears it.                                   *)
(*                                                                         *)
(* Numbers of the chart primitives are exact fixed-point values: bullet's  *)
(* inputs are tenths of a degree and its geometry is in twentieths, so     *)
(* that the halving and the 0.5 margin of line 87 are exact.               *)
(***************************************************************************)
EXTENDS Integers, Sequences, FiniteSets

VARIABLES
    cache,          \* st.cache_data's store for load_sst: date -> entry
    firstOutcome,   \* history: the outcome of the first call per date
    call,           \* history: what the latest rerun's load_sst call did
    page,           \* what the report shows after the latest rerun
    fig             \* the figure the chart primitive in progress drew on

vars == <<cache, firstOutcome, call, page, fig>>

(***************************************************************************)
(* Bounds of the model.                                                    *)
(***************************************************************************)
MaxDates == 2
MaxGrids == 1
MaxTenths == 6
MaxLen == 3
MaxVal == 2
MaxRows == 4
MaxCols == 4

Dates == 1..MaxDates

(***************************************************************************)
(* load_sst: values, the remote service's behaviour, the cache.            *)
(***************************************************************************)
\* The values load_sst returns: None, or the loaded DataArray (its content g).
None == [kind |-> "None", grid |-> 0]
DataArray(g) == [kind |-> "DataArray", grid |-> g]
RetVals == {None} \cup {DataArray(g) : g \in 1..MaxGrids}

\* What the remote service does during one execution of load_sst's body:
\* whether each open succeeds, whether .sel() and .load() succeed, and the
\* content of the slice (0: every value is NaN).
Envs == [primary : BOOLEAN, fallback : BOOLEAN, sel : BOOLEAN,
         load : BOOLEAN, data : 0..MaxGrids]

\* The message st.error shows names the exception that was caught ("open",
\* "sel", "load"); "" is no st.error call.
NoEntry == [present |-> FALSE, ret |-> None, err |-> ""]
Entry(ret, err) == [present |-> TRUE, ret |-> ret, err |-> err]

NoCall == [made |-> FALSE]

BlankPage == [banner |-> "", map |-> None, sections |-> FALSE, aborted |-> FALSE]

Blank == [kind |-> "blank"]

\* Lines 48-51: open with the default engine; on any exception open once
\* more with engine="pydap". log is the sequence of open attempts.
\* (Variant for comparison: a single attempt, no pydap retry.)
OpenDatasetNoFallback(e) ==
    [ok |-> e.primary, log |-> <<"default">>]
OpenDataset(e) ==
    IF e.primary
    THEN [ok |-> TRUE, log |-> <<"default">>]
    ELSE [ok |-> e.fallback, log |-> <<"default", "pydap">>]

\* Lines 48-59, the body of the outer try: the first exception ends it.
TryBody(e) ==
    LET o == OpenDataset(e)
    IN  IF ~o.ok THEN [exc |-> "open", ret |-> None, log |-> o.log]
        ELSE IF ~e.sel THEN [exc |-> "sel", ret |-> None, log |-> o.log]
        ELSE IF ~e.load THEN [exc |-> "load", ret |-> None, log |-> o.log]
        ELSE IF e.data = 0 THEN [exc |-> "", ret |-> None, log |-> o.log]
        ELSE [exc |-> "", ret |-> DataArray(e.data), log |-> o.log]

\* Lines 60-62: except Exception: st.error(message); return None.
\* (Variant for comparison: a handler that covers only the opens.)
ExceptOnlyOpen(t) ==
    IF t.exc = "" THEN [ret |-> t.ret, err |-> "", raised |-> FALSE, log |-> t.log]
    ELSE IF t.exc = "open"
         THEN [ret |-> None, err |-> t.exc, raised |-> FALSE, log |-> t.log]
         ELSE [ret |-> None, err |-> "", raised |-> TRUE, log |-> t.log]
ExceptException(t) ==
    IF t.exc = "" THEN [ret |-> t.ret, err |-> "", raised |-> FALSE, log |-> t.log]
    ELSE [ret |-> None, err |-> t.exc, raised |-> FALSE, log |-> t.log]

\* Lines 44-62: load_sst's body, run on a cache miss.
LoadSstBody(date, e) == ExceptException(TryBody(e))

\* Line 43: st.cache_data looks the argument up ...
\* (Variant for comparison: load_sst without the decorator.)
CacheLookupAlwaysMiss(c, date) == NoEntry
CacheLookup(c, date) == c[date]

\* ... and stores whatever the function returns normally (None included),
\* together with the st elements it showed, which a hit replays.
CacheStore(c, date, r) ==
    IF r.raised THEN c ELSE [c EXCEPT ![date] = Entry(r.ret, r.err)]

\* Lines 43-44: the decorated load_sst.
CachedLoadSst(c, date, e) ==
    LET hit == CacheLookup(c, date)
    IN  IF hit.present
        THEN [ret |-> hit.ret, err |-> hit.err, raised |-> FALSE, log |-> <<>>,
              hit |-> TRUE, cache |-> c]
        ELSE LET r == LoadSstBody(date, e)
             IN  [ret |-> r.ret, err |-> r.err, raised |-> r.raised, log |-> r.log,
                  hit |-> FALSE, cache |-> CacheStore(c, date, r)]

\* Lines 161-165 and the sections after them: an uncaught exception ends the
\* script run; otherwise the map is drawn when da is not None, and the rest
\* of the report follows.
ReportPage(r) ==
    IF r.raised
    THEN [banner |-> "", map |-> None, sections |-> FALSE, aborted |-> TRUE]
    ELSE [banner |-> r.err, map |-> r.ret, sections |-> TRUE, aborted |-> FALSE]

Init ==
    /\ cache = [d \in Dates |-> NoEntry]
    /\ firstOutcome = [d \in Dates |-> NoEntry]
    /\ call = NoCall
    /\ page = BlankPage
    /\ fig = Blank

\* One rerun of the script with date picked in st.date_input.
Rerun(date, e) ==
    LET r == CachedLoadSst(cache, date, e)
    IN  /\ cache' = r.cache
        /\ firstOutcome' = IF firstOutcome[date].present THEN firstOutcome
                           ELSE [firstOutcome EXCEPT ![date] = Entry(r.ret, r.err)]
        /\ call' = [made |-> TRUE, date |-> date, repeat |-> firstOutcome[date].present,
                    env |-> e, hit |-> r.hit, ret |-> r.ret, err |-> r.err,
                    raised |-> r.raised, log |-> r.log]
        /\ page' = ReportPage(r)
        /\ UNCHANGED fig

Next == \E date \in Dates, e \in Envs : Rerun(date, e)

Spec == Init /\ [][Next]_vars

(***************************************************************************)
(* Claims about load_sst and its caller (specification Spec).              *)
(***************************************************************************)
\* The two failure outcomes, as load_sst produces them.
BothOpensFailed(e) == ~e.primary /\ ~e.fallback
AllMissing(e) == (e.primary \/ e.fallback) /\ e.sel /\ e.load /\ e.data = 0
IsGrid(v) == v.kind = "DataArray"

\* C1: once the first fetch of a date returned a grid, every later fetch of
\* that date returns the identical grid and makes no open attempt with
\* either access strategy during that call.
C1_CacheHitIdentical ==
    (call.made /\ call.repeat /\ IsGrid(firstOutcome[call.date].ret))
        => /\ call.ret = firstOutcome[call.date].ret
           /\ call.log = <<>>

\* C1's case: a repeated fetch of a date whose first fetch returned a grid,
\* made while the service would now fail or answer with other content.
C1_Witness ==
    /\ call.made /\ call.repeat
    /\ IsGrid(firstOutcome[call.date].ret)
    /\ call.env.data # firstOutcome[call.date].ret.grid
    /\ ~call.env.primary

\* C2: on a cache miss the primary strategy is tried first; when it fails the
\* fallback is tried exactly once and nothing more; when both fail the call
\* ends with an error message shown (DataUnavailable), not as a silent
\* absent result.
C2_FallbackOnce ==
    (call.made /\ ~call.hit)
        => /\ call.env.primary => call.log = <<"default">>
           /\ ~call.env.primary => call.log = <<"default", "pydap">>
           /\ BothOpensFailed(call.env)
                => (call.err # "" /\ call.ret = None /\ page.banner # "")

\* C2's case: a cache miss on which both opens failed.
C2_Witness ==
    /\ call.made /\ ~call.hit
    /\ BothOpensFailed(call.env)
    /\ Len(call.log) = 2

\* C3 (as claimed): when both strategies fail, no cache entry is written for
\* the date.
C3_FailureNotCached ==
    (call.made /\ ~call.hit /\ BothOpensFailed(call.env))
        => ~cache[call.date].present

\* C4 (as claimed): an all-missing slice yields the absent value with no
\* message, a failure yields a message, and the value the caller receives
\* tells the two apart.
C4_CallerDistinguishes ==
    /\ (call.made /\ ~call.hit /\ AllMissing(call.env))
            => (call.ret = None /\ call.err = "")
    /\ (call.made /\ ~call.hit /\ BothOpensFailed(call.env))
            => call.err # ""
    /\ \A d1, d2 \in Dates :
          ( /\ firstOutcome[d1].present /\ firstOutcome[d2].present
            /\ firstOutcome[d1].ret = None /\ firstOutcome[d1].err = ""
            /\ firstOutcome[d2].err # "" )
                => firstOutcome[d1].ret # firstOutcome[d2].ret

\* C10: load_sst never lets an exception reach its caller: whatever step of a
\* miss fails, it returns a grid or None; the caller draws the map exactly
\* when a grid came back, and the remaining sections are rendered.
C10_NoPropagation ==
    call.made
        => /\ ~call.raised
           /\ call.ret \in RetVals
           /\ ~page.aborted
           /\ page.sections
           /\ page.map = call.ret
           /\ (IsGrid(page.map) <=> IsGrid(call.ret))

\* C10's case: a miss whose opens succeeded and whose slice selection or
\* materialization failed, after which the report went on.
C10_Witness ==
    /\ call.made /\ ~call.hit
    /\ call.env.primary
    /\ (~call.env.sel \/ ~call.env.load)
    /\ page.sections

(***************************************************************************)
(* The chart primitives (specification SpecCharts).                        *)
(***************************************************************************)
Min(a, b) == IF a <= b THEN a ELSE b
Max(a, b) == IF a >= b THEN a ELSE b
Abs(a) == IF a >= 0 THEN a ELSE -a

\* bullet's inputs, in tenths of a degree: a small range around zero, and the
\* literals of the three call sites (lines 172, 177, 182).
BulletCallSites == {<<232, 212>>, <<198, 192>>, <<226, 198>>}
BulletInputs == ((-MaxTenths..MaxTenths) \X (-MaxTenths..MaxTenths)) \cup BulletCallSites

\* Geometry is in twentieths of a degree: a value of t tenths is 2t.
Twentieths(t) == 2 * t

\* Line 87: pad = (hi - lo) * 0.5 + 0.5, in twentieths (hi - lo is even).
BulletMargin == 10
\* (Variant for comparison: the pad without the + 0.5.)
BulletPadNoMargin(lo, hi) == (hi - lo) \div 2
BulletPad(lo, hi) == (hi - lo) \div 2 + BulletMargin

\* Lines 94 and 98: the sign prefix of the badge text and the badge colour.
BadgePositive == "#C1272D"
BadgeOther == "#2B7A78"
BadgePrefix(delta) == IF delta >= 0 THEN "+" ELSE ""
\* (Variant for comparison: the colour tested with delta > 0.)
BadgeColorStrict(delta) == IF delta > 0 THEN BadgePositive ELSE BadgeOther
BadgeColor(delta) == IF delta >= 0 THEN BadgePositive ELSE BadgeOther

\* Lines 85-99: what bullet draws for value and target (tenths).
BulletFigure(value, target) ==
    LET lo == Min(Twentieths(value), Twentieths(target))
        hi == Max(Twentieths(value), Twentieths(target))
        pad == BulletPad(lo, hi)
        vmin == lo - pad
        vmax == hi + pad
        delta == value - target
    IN  [kind |-> "bullet", value |-> value, target |-> target,
         vmin |-> vmin, vmax |-> vmax,
         track |-> [left |-> vmin, width |-> vmax - vmin],
         fill |-> [left |-> vmin, width |-> Twentieths(value) - vmin],
         marker |-> Twentieths(target),
         xlim |-> <<vmin, vmax>>,
         delta |-> delta,
         badge |-> [prefix |-> BadgePrefix(delta), tenths |-> delta,
                    color |-> BadgeColor(delta)]]

\* lollipop_horizontal's inputs: the labels are the distinct region names
\* (here the input positions 1..n), the values a non-empty list.
LollipopValues == UNION {[1..n -> 0..MaxVal] : n \in 1..MaxLen}
Units == {"C", "C/yr"}

\* Line 102, np.argsort(values): an index order that sorts the values
\* ascending. The default kind ("quicksort") is not a stable sort, so on
\* equal values any of the sorting orders may come back.
ArgsortResults(values) ==
    LET n == Len(values)
    IN  {p \in [1..n -> 1..n] :
            /\ \A i, j \in 1..n : i # j => p[i] # p[j]
            /\ \A i, j \in 1..n : i < j => values[p[i]] <= values[p[j]]}

\* Line 102, [::-1].
\* (Variant for comparison: the ascending order kept.)
NotReversed(s) == s
Reversed(s) == [i \in 1..Len(s) |-> s[Len(s) + 1 - i]]

\* Line 107, np.argmax: the first position of the maximum.
ArgMax(s) ==
    CHOOSE i \in 1..Len(s) :
        /\ \A j \in 1..Len(s) : s[j] <= s[i]
        /\ \A j \in 1..(i - 1) : s[j] < s[i]

\* Line 111: two decimals when the unit ends with the per-year suffix.
Decimals(unit) == IF unit = "C/yr" THEN 2 ELSE 1

LineColor == "#4C78A8"
HighlightColor == "#E45756"

\* Lines 101-113: the rows lollipop_horizontal draws, given argsort's answer.
LollipopFigure(values, unit, order) ==
    LET idx == Reversed(order)
        labels_sorted == [i \in 1..Len(idx) |-> idx[i]]
        values_sorted == [i \in 1..Len(idx) |-> values[idx[i]]]
        vmax_i == ArgMax(values_sorted)
    IN  [kind |-> "lollipop", values |-> values, unit |-> unit,
         rows |-> [i \in 1..Len(idx) |->
                     [y |-> i - 1, label |-> labels_sorted[i],
                      value |-> values_sorted[i],
                      color |-> IF i = vmax_i THEN HighlightColor ELSE LineColor,
                      weight |-> IF i = vmax_i THEN "bold" ELSE "500",
                      decimals |-> Decimals(unit)]]]

\* waffle's inputs: percent in 0..100, the grid sizes up to the bounds and
\* the default 10 x 10 grid of line 123.
DefaultRows == 10
DefaultCols == 10
Percents == 0..100
WaffleGrids == ((1..MaxRows) \X (1..MaxCols)) \cup {<<DefaultRows, DefaultCols>>}

\* Line 125, round(): to the nearest integer, a half to the even neighbour.
\* (On the inputs modelled here the double product percent/100*total rounds
\* to the same integer as the exact quotient num/den.)
\* (Variant for comparison: int() without round().)
RoundFloor(num, den) == num \div den
Round(num, den) ==
    LET q == num \div den
        r == num % den
    IN  IF 2 * r < den THEN q
        ELSE IF 2 * r > den THEN q + 1
        ELSE IF q % 2 = 0 THEN q ELSE q + 1

OnColor == "#F03B20"
OffColor == "#EEEEEE"

\* Lines 123-134: the rectangles waffle adds, in the order it adds them.
WaffleFigure(percent, rows, cols) ==
    LET total == rows * cols
        k == Round(percent * total, 100)
    IN  [kind |-> "waffle", percent |-> percent, rows |-> rows, cols |-> cols,
         cells |-> [n \in 1..total |->
                      LET i == n - 1
                          r == i \div cols
                          c == i % cols
                      IN  [x |-> c, y |-> rows - 1 - r,
                           color |-> IF i < k THEN OnColor ELSE OffColor]],
         xlim |-> <<0, cols>>, ylim |-> <<0, rows>>,
         label |-> percent]

\* Each primitive draws on the fresh figure plt.subplots() made.
Bullet(value, target) ==
    /\ fig = Blank
    /\ fig' = BulletFigure(value, target)
    /\ UNCHANGED <<cache, firstOutcome, call, page>>

LollipopHorizontal(values, unit) ==
    /\ fig = Blank
    /\ \E order \in ArgsortResults(values) :
          fig' = LollipopFigure(values, unit, order)
    /\ UNCHANGED <<cache, firstOutcome, call, page>>

Waffle(percent, rows, cols) ==
    /\ fig = Blank
    /\ fig' = WaffleFigure(percent, rows, cols)
    /\ UNCHANGED <<cache, firstOutcome, call, page>>

\* st.pyplot(fig, clear_figure=True): the figure is shown and cleared.
Pyplot ==
    /\ fig # Blank
    /\ fig' = Blank
    /\ UNCHANGED <<cache, firstOutcome, call, page>>

NextCharts ==
    \/ \E vt \in BulletInputs : Bullet(vt[1], vt[2])
    \/ \E values \in LollipopValues, unit \in Units : LollipopHorizontal(values, unit)
    \/ \E percent \in Percents, g \in WaffleGrids : Waffle(percent, g[1], g[2])
    \/ Pyplot

SpecCharts == Init /\ [][NextCharts]_vars

(***************************************************************************)
(* Claims about the chart primitives (specification SpecCharts).           *)
(***************************************************************************)
\* The place of a drawn cell in row-major order counted from the top row of
\* the axes (the row just under the upper y limit).
ReadingPos(f, cell) == (f.ylim[2] - 1 - cell.y) * f.cols + cell.x
OnCells(f) == {n \in 1..Len(f.cells) : f.cells[n].color = OnColor}

\* C5: waffle colours exactly k cells "on", k the integer nearest to
\* percent/100 * rows*cols; every cell of the grid is drawn once; every "on"
\* cell precedes every "off" cell in row-major order from the top row; 0 gives
\* none, 100 gives all, 50 and 59 on the 10 x 10 grid give 50 and 59.
C5_WaffleFill ==
    fig.kind = "waffle" =>
        LET total == fig.rows * fig.cols
            k == Cardinality(OnCells(fig))
        IN  /\ Len(fig.cells) = total
            /\ {ReadingPos(fig, fig.cells[n]) : n \in 1..total} = 0..(total - 1)
            /\ \A n \in 1..total :
                  /\ fig.cells[n].x \in 0..(fig.cols - 1)
                  /\ fig.cells[n].y \in 0..(fig.rows - 1)
                  /\ fig.cells[n].color \in {OnColor, OffColor}
            /\ Abs(100 * k - fig.percent * total) <= 50
            /\ \A a, b \in 1..total :
                  (fig.cells[a].color = OnColor /\ fig.cells[b].color = OffColor)
                      => ReadingPos(fig, fig.cells[a]) < ReadingPos(fig, fig.cells[b])
            /\ fig.percent = 0 => k = 0
            /\ fig.percent = 100 => k = total
            /\ (fig.percent = 50 /\ fig.rows = 10 /\ fig.cols = 10) => k = 50
            /\ (fig.percent = 59 /\ fig.rows = 10 /\ fig.cols = 10) => k = 59

\* C5's case: waffle(59) on the default grid, with cells of both colours.
C5_Witness ==
    /\ fig.kind = "waffle"
    /\ fig.percent = 59 /\ fig.rows = 10 /\ fig.cols = 10
    /\ \E a, b \in 1..Len(fig.cells) :
          fig.cells[a].color = OnColor /\ fig.cells[b].color = OffColor

\* C6: the range bullet sets as x limits and background track strictly
\* contains value and target, and on each side the padding is half of
\* |value - target| plus the same fixed positive margin.
C6_BulletRange ==
    fig.kind = "bullet" =>
        LET v == Twentieths(fig.value)
            t == Twentieths(fig.target)
        IN  /\ fig.xlim = <<fig.vmin, fig.vmax>>
            /\ fig.track.left = fig.vmin
            /\ fig.track.left + fig.track.width = fig.vmax
            /\ fig.vmin < Min(v, t)
            /\ Max(v, t) < fig.vmax
            /\ Min(v, t) - fig.vmin = fig.vmax - Max(v, t)
            /\ 2 * (Min(v, t) - fig.vmin) - Abs(v - t) = 2 * BulletMargin
            /\ BulletMargin > 0

\* C6's case: bullet drawn with value equal to target.
C6_Witness ==
    /\ fig.kind = "bullet"
    /\ fig.value = fig.target

\* C7 (as claimed): a positive delta has the positive colour and a "+"
\* prefix, a non-positive delta (zero included) the other colour.
C7_ZeroDeltaNonPositiveColor ==
    fig.kind = "bullet" =>
        /\ fig.delta = fig.value - fig.target
        /\ fig.delta > 0 => (fig.badge.color = BadgePositive /\ fig.badge.prefix = "+")
        /\ fig.delta <= 0 => fig.badge.color = BadgeOther

\* C7 (amended): delta = value - target; a delta >= 0 (zero included) has the
\* positive colour and a "+" prefix, a negative delta the other colour and no
\* prefix; bullet(23.2, 21.2) shows "+2.0".
C7_BadgeSign ==
    fig.kind = "bullet" =>
        /\ fig.delta = fig.value - fig.target
        /\ fig.badge.tenths = fig.delta
        /\ fig.delta >= 0 => (fig.badge.color = BadgePositive /\ fig.badge.prefix = "+")
        /\ fig.delta < 0 => (fig.badge.color = BadgeOther /\ fig.badge.prefix = "")
        /\ (fig.value = 232 /\ fig.target = 212)
              => (fig.badge.prefix = "+" /\ fig.badge.tenths = 20
                  /\ fig.badge.color = BadgePositive)

\* C7's case: the zero-delta badge.
C7_Witness ==
    /\ fig.kind = "bullet"
    /\ fig.delta = 0
    /\ fig.badge.color = BadgePositive

\* C8: the rows are a permutation of the input pairs (each label with its own
\* value), in non-increasing value order from row 0 down, and exactly one row
\* is highlighted and bold: a row holding the maximum.
C8_LollipopOrder ==
    fig.kind = "lollipop" =>
        LET n == Len(fig.values)
            rows == fig.rows
            hl == {i \in 1..Len(rows) : rows[i].color = HighlightColor}
        IN  /\ Len(rows) = n
            /\ \A i \in 1..n : rows[i].y = i - 1
            /\ {rows[i].label : i \in 1..n} = 1..n
            /\ \A i \in 1..n : rows[i].value = fig.values[rows[i].label]
            /\ \A i, j \in 1..n : i < j => rows[i].value >= rows[j].value
            /\ Cardinality(hl) = 1
            /\ \A i \in 1..n : (rows[i].weight = "bold") <=> (i \in hl)
            /\ \A i \in hl : \A j \in 1..n : fig.values[j] <= rows[i].value

\* C8's case: three values whose maximum is not the first input.
C8_Witness ==
    /\ fig.kind = "lollipop"
    /\ Len(fig.values) = 3
    /\ fig.values[1] < fig.values[3] /\ fig.values[2] < fig.values[1]
    /\ fig.rows[1].label = 3

\* C9 (as claimed): among equal values the earlier input is drawn at the
\* earlier row, and the highlighted row is the first input occurrence of the
\* maximum.
C9_StableTies ==
    fig.kind = "lollipop" =>
        LET n == Len(fig.values)
            RowOf(l) == CHOOSE i \in 1..n : fig.rows[i].label = l
        IN  /\ \A a, b \in 1..n :
                  (a < b /\ fig.values[a] = fig.values[b]) => RowOf(a) < RowOf(b)
            /\ \A i \in 1..n :
                  fig.rows[i].color = HighlightColor
                      => fig.rows[i].label = ArgMax(fig.values)

====
